---- MODULE Spec2Model ----
(***************************************************************************)
(* Model of two components of the add-on collection:                       *)
(*                                                                         *)
(*  - rigify/rigs/face/basic_tongue.py: the tongue rig (class Rig), whose  *)
(*    stage handlers create, parent and constrain the control, follow and  *)
(*    tweak chains of every tongue rig of an armature;                     *)
(*  - io_scene_gltf2/.../gltf2_blender_gather_materials_sheen.py: the      *)
(*    export of the KHR_materials_sheen material extension.                *)
(*                                                                         *)
(* Python lists are 0-based, TLA+ sequences 1-based: org[r][i] below is    *)
(* self.bones.org[i-1] of rig r, mch_follow[r][j] is bones.mch.follow[j-1] *)
(* and ctrl_tweak[r][k] is bones.ctrl.tweak[k-1].                          *)
(***************************************************************************)
EXTENDS Integers, Sequences, FiniteSets, TLC

\* Longest input chain of original bones that is explored.
MaxChain == 4
\* Number of tongue rigs in the armature.
NumRigs == 2
\* Largest socket value (a float with an integral value) that is explored.
MaxVal == 2

Rigs == 1..NumRigs

\* class attribute Rig.min_chain_length
min_chain_length_low == 3 - 1
min_chain_length == 3

\* default and minimum of the 'bbones' IntProperty
bbones_default == 10
bbones_min == 1

VARIABLES
    stage,            \* the stage the generator is invoking
    cur,              \* the rig whose handlers are being invoked
    ran,              \* handlers of `stage` already invoked on rig `cur`
    org,              \* org[r]: self.bones.org, the input chain
    params_bbones,    \* params_bbones[r]: self.params.bbones
    rig_parent_bone,  \* rig_parent_bone[r]: self.rig_parent_bone
    tweak_extra,      \* number of tweak bones beyond one per original bone
    status,           \* status[r]: "ok", or "error" once the build of r failed
    bbone_segments,   \* bbone_segments[r]: self.bbone_segments
    ctrl_master,      \* ctrl_master[r]: self.bones.ctrl.master
    mch_follow,       \* mch_follow[r]: self.bones.mch.follow
    ctrl_tweak,       \* ctrl_tweak[r]: self.bones.ctrl.tweak
    attrs,            \* attrs[r]: attributes of self.bones assigned so far
    eb,               \* the armature's edit bones: name -> head, tail, parent
    props,            \* pose bone properties copied by copy_bone_properties
    skin_primary,     \* bones assigned to the primary control layers
    constraints,      \* constraints in creation order
    widgets,          \* bone -> widget created for it
    report,           \* the host build report
    material,         \* the material handed to export_sheen
    sheen_result      \* what export_sheen returned for it

schedVars == <<stage, cur, ran>>
inputVars == <<org, params_bbones, rig_parent_bone, tweak_extra>>
rigVars == <<status, bbone_segments, ctrl_master, mch_follow, ctrl_tweak, attrs>>
armVars == <<eb, props, skin_primary, constraints, widgets, report>>
sheenVars == <<material, sheen_result>>
vars == <<schedVars, inputVars, rigVars, armVars, sheenVars>>

----------------------------------------------------------------------------
(* Bones of the armature *)

Bone(prefix, r, i) == [prefix |-> prefix, rig |-> r, idx |-> i]

\* No bone (Python None) and the bone the tongue chains hang from.
NoBone == Bone("none", 0, 0)
Root == Bone("root", 0, 0)

\* The stage pipeline, in invocation order.
Stages == <<"initialize", "generate_bones", "parent_bones",
            "configure_bones", "rig_bones", "generate_widgets">>

StageIndex(st) == CHOOSE k \in 1..Len(Stages) : Stages[k] = st

StageHandlers(st) ==
    CASE st = "initialize" -> {"initialize"}
      [] st = "generate_bones" ->
            {"make_control_chain", "make_follow_chain", "make_tweak_chain"}
      [] st = "parent_bones" ->
            {"parent_control_chain", "parent_follow_chain", "parent_tweak_chain"}
      [] st = "configure_bones" -> {"configure_control_chain"}
      [] st = "rig_bones" -> {"rig_follow_chain"}
      [] st = "generate_widgets" -> {"make_control_widgets"}
      [] OTHER -> {}

\* utils.naming.make_derived_name: same base name, other bone class.
make_derived_name(name, subtype) == [name EXCEPT !.prefix = subtype]

\* BaseRig.copy_bone: a new bone with the position of `src`, and with its
\* parent only when parent=True.
copy_bone(ebs, src, name, with_parent) ==
    (name :> [head |-> ebs[src].head,
              tail |-> ebs[src].tail,
              parent |-> IF with_parent THEN ebs[src].parent ELSE NoBone])
    @@ ebs

\* utils.bones.flip_bone: swap head and tail.
flip_bone(ebs, name) ==
    [ebs EXCEPT ![name] = [@ EXCEPT !.head = ebs[name].tail,
                                    !.tail = ebs[name].head]]

\* utils.bones.copy_bone_position: put `to` where `from` is.
copy_bone_position(ebs, from, to) ==
    [ebs EXCEPT ![to] = [@ EXCEPT !.head = ebs[from].head,
                                  !.tail = ebs[from].tail]]

\* BaseRig.set_bone_parent
set_bone_parent(ebs, bone, parent) ==
    [ebs EXCEPT ![bone] = [@ EXCEPT !.parent = parent]]

\* self.base_bone: the first bone of the input chain.
base_bone(r) == org[r][1]

----------------------------------------------------------------------------
(* Exact arithmetic for constraint influences: a value is a reduced        *)
(* fraction <<numerator, denominator>> with a positive denominator.        *)

RECURSIVE GCD(_, _)
GCD(a, b) == IF b = 0 THEN a ELSE GCD(b, a % b)

Abs(a) == IF a < 0 THEN -a ELSE a

RatNorm(n, d) ==
    LET g == GCD(Abs(n), Abs(d))
        s == IF d < 0 THEN -1 ELSE 1
    IN  <<(s * n) \div g, (s * d) \div g>>

RatDiv(a, b) == RatNorm(a, b)
RatSub(x, y) == RatNorm(x[1] * y[2] - y[1] * x[2], x[2] * y[2])
RatInt(a) == <<a, 1>>
RatLess(x, y) == x[1] * y[2] < y[1] * x[2]

\* The influence expression of rig_follow_chain, for enumerate index i.
follow_influence_from_zero(i, num_orgs) ==
    RatSub(RatInt(1), RatDiv(i, num_orgs))
follow_influence(i, num_orgs) ==
    RatSub(RatInt(1), RatDiv(1 + i, num_orgs))

----------------------------------------------------------------------------
(* The tongue rig *)

\* The bones of the input chain of rig r with n bones, and the armature the
\* generator starts from: the root bone and every rig's connected chain.
\* The chains all hang from the root bone or all have no parent, and the
\* rigs share one 'bbones' setting.
OrgChain(r, n) == [i \in 1..n |-> Bone("org", r, i)]

OrgBones(len) == UNION {{Bone("org", r, i) : i \in 1..len[r]} : r \in Rigs}

InitialBones(len, parent) ==
    [b \in {Root} \cup OrgBones(len) |->
        IF b = Root
        THEN [head |-> <<0, 0>>, tail |-> <<0, 1>>, parent |-> NoBone]
        ELSE [head |-> <<b.rig, b.idx - 1>>,
              tail |-> <<b.rig, b.idx>>,
              parent |-> IF b.idx = 1 THEN parent[b.rig]
                         ELSE Bone("org", b.rig, b.idx - 1)]]

\* What export_sheen has not been called on / has not returned yet.
NoMaterial == [sheenColor |-> [kind |-> "unused"], sheenRoughness |-> [kind |-> "unused"]]
NoResult == [state |-> "pending"]

Init ==
    /\ stage = "initialize"
    /\ cur = 1
    /\ ran = {}
    /\ \E len \in [Rigs -> 1..MaxChain] :
         /\ org = [r \in Rigs |-> OrgChain(r, len[r])]
         /\ \E p \in {Root, NoBone} : rig_parent_bone = [r \in Rigs |-> p]
         /\ eb = InitialBones(len, rig_parent_bone)
         /\ props = [b \in OrgBones(len) |-> <<"props", b.rig, b.idx>>]
    /\ \E n \in {bbones_min, bbones_default} : params_bbones = [r \in Rigs |-> n]
    /\ tweak_extra \in {0, 1}
    /\ status = [r \in Rigs |-> "ok"]
    /\ bbone_segments = [r \in Rigs |-> 0]
    /\ ctrl_master = [r \in Rigs |-> NoBone]
    /\ mch_follow = [r \in Rigs |-> <<>>]
    /\ ctrl_tweak = [r \in Rigs |-> <<>>]
    /\ attrs = [r \in Rigs |-> {}]
    /\ skin_primary = {}
    /\ constraints = <<>>
    /\ widgets = [b \in {} |-> "none"]
    /\ report = <<>>
    /\ material = NoMaterial
    /\ sheen_result = NoResult

\* A handler h of stage st is invoked on rig r: the generator is at that
\* stage and rig, the rig's build has not failed, and h has not run yet.
Invoke(st, r, h) ==
    /\ stage = st
    /\ cur = r
    /\ status[r] = "ok"
    /\ h \notin ran
    /\ ran' = ran \cup {h}
    /\ UNCHANGED <<stage, cur>>

\* SimpleChainRig.initialize: the chain is shorter than min_chain_length.
chain_too_short(r) == Len(org[r]) < min_chain_length

\* Rig.initialize
initialize(r) ==
    /\ Invoke("initialize", r, "initialize")
    /\ IF chain_too_short(r)
       THEN /\ status' = [status EXCEPT ![r] = "error"]
            /\ report' = Append(report,
                    [rig |-> r, type |-> "MetarigError",
                     message |-> "input bone chain too short"])
            /\ UNCHANGED bbone_segments
       ELSE /\ bbone_segments' = [bbone_segments EXCEPT ![r] = params_bbones[r]]
            /\ UNCHANGED <<status, report>>
    /\ UNCHANGED <<inputVars, ctrl_master, mch_follow, ctrl_tweak, attrs,
                   eb, props, skin_primary, constraints, widgets, sheenVars>>

\* Rig.make_control_chain, and the same handler forgetting the assignment
\* of bones.ctrl.master.
make_control_chain_unassigned(r) ==
    /\ Invoke("generate_bones", r, "make_control_chain")
    /\ LET o == org[r][1]
           name == make_derived_name(o, "ctrl")
       IN  eb' = flip_bone(copy_bone(eb, o, name, TRUE), name)
    /\ UNCHANGED <<inputVars, status, bbone_segments, ctrl_master, mch_follow,
                   ctrl_tweak, attrs, props, skin_primary, constraints,
                   widgets, report, sheenVars>>

make_control_chain(r) ==
    /\ Invoke("generate_bones", r, "make_control_chain")
    /\ LET o == org[r][1]
           name == make_derived_name(o, "ctrl")
       IN  /\ eb' = flip_bone(copy_bone(eb, o, name, TRUE), name)
           /\ ctrl_master' = [ctrl_master EXCEPT ![r] = name]
    /\ attrs' = [attrs EXCEPT ![r] = @ \cup {"ctrl.master"}]
    /\ UNCHANGED <<inputVars, status, bbone_segments, mch_follow, ctrl_tweak,
                   props, skin_primary, constraints, widgets, report, sheenVars>>

\* Rig.make_mch_follow_bone: the armature after creating the follow bone of
\* original bone o, and the name of that bone.
mch_follow_name(o) == make_derived_name(o, "mch")

make_mch_follow_bone(ebs, r, o) ==
    LET name == mch_follow_name(o)
    IN  flip_bone(copy_bone_position(copy_bone(ebs, o, name, FALSE),
                                     base_bone(r), name),
                  name)

\* utils.misc.map_list over the original bones, threading the armature.
RECURSIVE map_make_mch_follow_bone(_, _, _)
map_make_mch_follow_bone(ebs, r, orgs) ==
    IF orgs = <<>> THEN ebs
    ELSE map_make_mch_follow_bone(make_mch_follow_bone(ebs, r, Head(orgs)),
                                  r, Tail(orgs))

\* Rig.make_follow_chain, and the same handler mapping over the whole of
\* bones.org instead of bones.org[1:].
make_follow_chain_all_orgs(r) ==
    /\ Invoke("generate_bones", r, "make_follow_chain")
    /\ LET orgs == org[r]
       IN  /\ eb' = map_make_mch_follow_bone(eb, r, orgs)
           /\ mch_follow' = [mch_follow EXCEPT ![r] =
                    [j \in 1..Len(orgs) |-> mch_follow_name(orgs[j])]]
    /\ attrs' = [attrs EXCEPT ![r] = @ \cup {"mch.follow"}]
    /\ UNCHANGED <<inputVars, status, bbone_segments, ctrl_master, ctrl_tweak,
                   props, skin_primary, constraints, widgets, report, sheenVars>>

make_follow_chain(r) ==
    /\ Invoke("generate_bones", r, "make_follow_chain")
    /\ LET orgs == Tail(org[r])
       IN  /\ eb' = map_make_mch_follow_bone(eb, r, orgs)
           /\ mch_follow' = [mch_follow EXCEPT ![r] =
                    [j \in 1..Len(orgs) |-> mch_follow_name(orgs[j])]]
    /\ attrs' = [attrs EXCEPT ![r] = @ \cup {"mch.follow"}]
    /\ UNCHANGED <<inputVars, status, bbone_segments, ctrl_master, ctrl_tweak,
                   props, skin_primary, constraints, widgets, report, sheenVars>>

\* TweakChainRig.make_tweak_chain: one tweak bone per original bone, and
\* tweak_extra more at the end of the chain.
tweak_source(r, k) == org[r][IF k <= Len(org[r]) THEN k ELSE Len(org[r])]

RECURSIVE map_make_tweak_bone(_, _, _, _)
map_make_tweak_bone(ebs, r, k, n) ==
    IF k > n THEN ebs
    ELSE LET name == Bone("tweak", r, k)
             made == copy_bone(ebs, tweak_source(r, k), name, FALSE)
             placed == IF k <= Len(org[r]) THEN made
                       ELSE [made EXCEPT ![name] =
                                [@ EXCEPT !.head = made[name].tail]]
         IN  map_make_tweak_bone(placed, r, k + 1, n)

make_tweak_chain(r) ==
    /\ Invoke("generate_bones", r, "make_tweak_chain")
    /\ LET n == Len(org[r]) + tweak_extra
       IN  /\ eb' = map_make_tweak_bone(eb, r, 1, n)
           /\ ctrl_tweak' = [ctrl_tweak EXCEPT ![r] =
                    [k \in 1..n |-> Bone("tweak", r, k)]]
    /\ attrs' = [attrs EXCEPT ![r] = @ \cup {"ctrl.tweak"}]
    /\ UNCHANGED <<inputVars, status, bbone_segments, ctrl_master, mch_follow,
                   props, skin_primary, constraints, widgets, report, sheenVars>>

\* A loop of set_bone_parent calls over (bone, parent) pairs.
RECURSIVE set_bone_parents(_, _)
set_bone_parents(ebs, pairs) ==
    IF pairs = <<>> THEN ebs
    ELSE set_bone_parents(set_bone_parent(ebs, Head(pairs)[1], Head(pairs)[2]),
                          Tail(pairs))

\* Python zip: as many pairs as the shorter list has elements.
zip(xs, ys) ==
    [k \in 1..(IF Len(xs) < Len(ys) THEN Len(xs) ELSE Len(ys)) |-> <<xs[k], ys[k]>>]

\* Rig.parent_control_chain
parent_control_chain(r) ==
    /\ Invoke("parent_bones", r, "parent_control_chain")
    /\ UNCHANGED <<inputVars, rigVars, armVars, sheenVars>>

\* Rig.parent_follow_chain, and the same handler parenting the follow bones
\* to the master control.
parent_follow_chain_to_master(r) ==
    /\ Invoke("parent_bones", r, "parent_follow_chain")
    /\ eb' = set_bone_parents(eb,
                [j \in 1..Len(mch_follow[r]) |->
                    <<mch_follow[r][j], ctrl_master[r]>>])
    /\ UNCHANGED <<inputVars, rigVars, props, skin_primary, constraints,
                   widgets, report, sheenVars>>

parent_follow_chain(r) ==
    /\ Invoke("parent_bones", r, "parent_follow_chain")
    /\ eb' = set_bone_parents(eb,
                [j \in 1..Len(mch_follow[r]) |->
                    <<mch_follow[r][j], rig_parent_bone[r]>>])
    /\ UNCHANGED <<inputVars, rigVars, props, skin_primary, constraints,
                   widgets, report, sheenVars>>

\* Rig.parent_tweak_chain, and the same handler with the master control
\* missing from the head of the parent list.
parent_tweak_chain_no_master(r) ==
    /\ Invoke("parent_bones", r, "parent_tweak_chain")
    /\ LET parents == mch_follow[r] \o <<rig_parent_bone[r]>>
       IN  eb' = set_bone_parents(eb, zip(ctrl_tweak[r], parents))
    /\ UNCHANGED <<inputVars, rigVars, props, skin_primary, constraints,
                   widgets, report, sheenVars>>

parent_tweak_chain(r) ==
    /\ Invoke("parent_bones", r, "parent_tweak_chain")
    /\ LET parents == <<ctrl_master[r]>> \o mch_follow[r] \o <<rig_parent_bone[r]>>
       IN  eb' = set_bone_parents(eb, zip(ctrl_tweak[r], parents))
    /\ UNCHANGED <<inputVars, rigVars, props, skin_primary, constraints,
                   widgets, report, sheenVars>>

\* Rig.configure_control_chain
configure_control_chain(r) ==
    /\ Invoke("configure_bones", r, "configure_control_chain")
    /\ LET master == ctrl_master[r]
       IN  /\ props' = (master :> props[org[r][1]]) @@ props
           /\ skin_primary' = skin_primary \cup {master}
    /\ UNCHANGED <<inputVars, rigVars, eb, constraints, widgets, report,
                   sheenVars>>

\* Rig.rig_follow_chain
rig_follow_chain(r) ==
    /\ Invoke("rig_bones", r, "rig_follow_chain")
    /\ LET master == ctrl_master[r]
           num_orgs == Len(org[r])
       IN  constraints' = constraints \o
                [j \in 1..Len(mch_follow[r]) |->
                    [owner |-> mch_follow[r][j],
                     type |-> "COPY_TRANSFORMS",
                     target |-> master,
                     influence |-> follow_influence(j - 1, num_orgs)]]
    /\ UNCHANGED <<inputVars, rigVars, eb, props, skin_primary, widgets,
                   report, sheenVars>>

\* Rig.make_control_widgets
make_control_widgets(r) ==
    /\ Invoke("generate_widgets", r, "make_control_widgets")
    /\ widgets' = (ctrl_master[r] :> "jaw") @@ widgets
    /\ UNCHANGED <<inputVars, rigVars, eb, props, skin_primary, constraints,
                   report, sheenVars>>

\* The generator's loops: every stage in order and, within a stage, every
\* rig in order; a rig whose build failed is skipped.
invoke_next_rig ==
    /\ stage /= "done"
    /\ ran = StageHandlers(stage) \/ status[cur] = "error"
    /\ cur < NumRigs
    /\ cur' = cur + 1
    /\ ran' = {}
    /\ UNCHANGED <<stage, inputVars, rigVars, armVars, sheenVars>>

invoke_next_stage ==
    /\ stage /= "done"
    /\ ran = StageHandlers(stage) \/ status[cur] = "error"
    /\ cur = NumRigs
    /\ stage' = IF StageIndex(stage) = Len(Stages) THEN "done"
                ELSE Stages[StageIndex(stage) + 1]
    /\ cur' = 1
    /\ ran' = {}
    /\ UNCHANGED <<inputVars, rigVars, armVars, sheenVars>>

Next ==
    \/ \E r \in Rigs : initialize(r)
    \/ \E r \in Rigs : make_control_chain(r)
    \/ \E r \in Rigs : make_follow_chain(r)
    \/ \E r \in Rigs : make_tweak_chain(r)
    \/ \E r \in Rigs : parent_control_chain(r)
    \/ \E r \in Rigs : parent_follow_chain(r)
    \/ \E r \in Rigs : parent_tweak_chain(r)
    \/ \E r \in Rigs : configure_control_chain(r)
    \/ \E r \in Rigs : rig_follow_chain(r)
    \/ \E r \in Rigs : make_control_widgets(r)
    \/ invoke_next_rig
    \/ invoke_next_stage

Spec == Init /\ [][Next]_vars

----------------------------------------------------------------------------
(* The sheen material extension *)

\* Python values, tagged with their type: a tuple never equals a list.
PyNone == [type |-> "NoneType", items |-> <<>>]
PyFloat(v) == [type |-> "float", items |-> <<v>>]
PyTuple(s) == [type |-> "tuple", items |-> s]
PyList(s) == [type |-> "list", items |-> s]
PropArray(s) == [type |-> "bpy_prop_array", items |-> s]

\* Slicing a bpy_prop_array with [:3] gives a tuple of its first three items.
SliceTo3(a) == PyTuple(SubSeq(a.items, 1, 3))

EmptyDict == [k \in {} |-> PyNone]
DictSet(d, k, v) == (k :> v) @@ d

\* The sockets get_socket can return for a material: None when the socket
\* does not exist, else a node socket.  `factor` and `has_image` are what
\* the node tree upstream of the socket makes get_factor_from_socket and
\* has_image_node_from_socket return.
Vals == 0..MaxVal
RGB == {<<x, y, z>> : x \in Vals, y \in Vals, z \in Vals}

NoSocket(name) ==
    [kind |-> "None", name |-> name, is_linked |-> FALSE,
     default_value |-> PyNone, factor |-> PyNone, has_image |-> FALSE]

UnlinkedSocket(name, value, const) ==
    [kind |-> "NodeSocket", name |-> name, is_linked |-> FALSE,
     default_value |-> value, factor |-> const, has_image |-> FALSE]

LinkedSocket(name, value, fac, image) ==
    [kind |-> "NodeSocket", name |-> name, is_linked |-> TRUE,
     default_value |-> value, factor |-> fac, has_image |-> image]

ColorSockets ==
    {NoSocket("sheenColor")}
    \cup {UnlinkedSocket("sheenColor", PropArray(c \o <<1>>), PyList(c)) : c \in RGB}
    \cup {LinkedSocket("sheenColor", PropArray(<<0, 0, 0, 1>>), f, img) :
            f \in {PyNone} \cup {PyList(c) : c \in RGB}, img \in BOOLEAN}

RoughnessSockets ==
    {NoSocket("sheenRoughness")}
    \cup {UnlinkedSocket("sheenRoughness", PyFloat(v), PyFloat(v)) : v \in Vals}
    \cup {LinkedSocket("sheenRoughness", PyFloat(0), f, img) :
            f \in {PyNone} \cup {PyFloat(v) : v \in Vals}, img \in BOOLEAN}

Materials ==
    {[sheenColor |-> c, sheenRoughness |-> s] :
        c \in ColorSockets, s \in RoughnessSockets}

\* gltf2_blender_get.get_socket
get_socket(blender_material, name) ==
    IF name = "sheenColor" THEN blender_material.sheenColor
    ELSE blender_material.sheenRoughness

\* gltf2_blender_get.get_factor_from_socket
get_factor_from_socket(socket, kind) == socket.factor

\* gltf2_blender_get.has_image_node_from_socket
has_image_node_from_socket(socket) == socket.has_image

\* gltf2_blender_gather_texture_info.gather_texture_info: the texture info
\* and the UV map info of the image upstream of the socket.
gather_texture_info(socket) ==
    [texture |-> [type |-> "TextureInfo", source |-> socket.name],
     uvmap_info |-> [type |-> "UVMapInfo", source |-> socket.name]]

\* isinstance(socket, bpy.types.NodeSocket) and not socket.is_linked
non_linked(socket) == socket.kind = "NodeSocket" /\ ~socket.is_linked

\* What export_sheen has built so far: the extension dictionary, the UV map
\* dictionary, and the calls made to gather factors and textures.
NothingGathered ==
    [sheen_extension |-> EmptyDict, uvmap_infos |-> EmptyDict, gathered |-> <<>>]

\* The texture part of a channel (lines 38-46 and 61-69), and the same part
\* without the update of uvmap_infos.
gather_texture_no_uvmap(socket, key, acc) ==
    IF has_image_node_from_socket(socket)
    THEN LET info == gather_texture_info(socket)
         IN  [acc EXCEPT
                !.sheen_extension = DictSet(@, key, info.texture),
                !.gathered = Append(@, <<"texture", socket.name>>)]
    ELSE acc

gather_texture(socket, key, acc) ==
    IF has_image_node_from_socket(socket)
    THEN LET info == gather_texture_info(socket)
         IN  [acc EXCEPT
                !.sheen_extension = DictSet(@, key, info.texture),
                !.uvmap_infos = DictSet(@, key, info.uvmap_info),
                !.gathered = Append(@, <<"texture", socket.name>>)]
    ELSE acc

\* The sheen color channel of export_sheen; the same channel comparing the
\* unlinked color with a list; and the same channel without the factor of
\* 1.0 for a linked socket that has no factor.
sheen_color_list_compare(socket, acc) ==
    IF non_linked(socket)
    THEN LET color == SliceTo3(socket.default_value)
         IN  IF color /= PyList(<<0, 0, 0>>)
             THEN [acc EXCEPT !.sheen_extension = DictSet(@, "sheenColorFactor", color)]
             ELSE acc
    ELSE LET got == get_factor_from_socket(socket, "RGB")
             fac == IF got = PyNone THEN PyList(<<1, 1, 1>>) ELSE got
             acc1 == [acc EXCEPT !.gathered = Append(@, <<"factor", socket.name>>)]
             acc2 == IF fac /= PyNone /\ fac /= PyList(<<0, 0, 0>>)
                     THEN [acc1 EXCEPT !.sheen_extension =
                                DictSet(@, "sheenColorFactor", fac)]
                     ELSE acc1
         IN  gather_texture(socket, "sheenColorTexture", acc2)

sheen_color_no_default_factor(socket, acc) ==
    IF non_linked(socket)
    THEN LET color == SliceTo3(socket.default_value)
         IN  IF color /= PyTuple(<<0, 0, 0>>)
             THEN [acc EXCEPT !.sheen_extension = DictSet(@, "sheenColorFactor", color)]
             ELSE acc
    ELSE LET fac == get_factor_from_socket(socket, "RGB")
             acc1 == [acc EXCEPT !.gathered = Append(@, <<"factor", socket.name>>)]
             acc2 == IF fac /= PyNone /\ fac /= PyList(<<0, 0, 0>>)
                     THEN [acc1 EXCEPT !.sheen_extension =
                                DictSet(@, "sheenColorFactor", fac)]
                     ELSE acc1
         IN  gather_texture(socket, "sheenColorTexture", acc2)

sheen_color(socket, acc) ==
    IF non_linked(socket)
    THEN LET color == SliceTo3(socket.default_value)
         IN  IF color /= PyTuple(<<0, 0, 0>>)
             THEN [acc EXCEPT !.sheen_extension = DictSet(@, "sheenColorFactor", color)]
             ELSE acc
    ELSE LET got == get_factor_from_socket(socket, "RGB")
             fac == IF got = PyNone THEN PyList(<<1, 1, 1>>) ELSE got
             acc1 == [acc EXCEPT !.gathered = Append(@, <<"factor", socket.name>>)]
             acc2 == IF fac /= PyNone /\ fac /= PyList(<<0, 0, 0>>)
                     THEN [acc1 EXCEPT !.sheen_extension =
                                DictSet(@, "sheenColorFactor", fac)]
                     ELSE acc1
         IN  gather_texture(socket, "sheenColorTexture", acc2)

\* The sheen roughness channel of export_sheen.
sheen_roughness(socket, acc) ==
    IF non_linked(socket)
    THEN LET fac == socket.default_value
         IN  IF fac /= PyFloat(0)
             THEN [acc EXCEPT !.sheen_extension = DictSet(@, "sheenRoughnessFactor", fac)]
             ELSE acc
    ELSE LET got == get_factor_from_socket(socket, "VALUE")
             fac == IF got = PyNone THEN PyFloat(1) ELSE got
             acc1 == [acc EXCEPT !.gathered = Append(@, <<"factor", socket.name>>)]
             acc2 == IF fac /= PyNone /\ fac /= PyFloat(0)
                     THEN [acc1 EXCEPT !.sheen_extension =
                                DictSet(@, "sheenRoughnessFactor", fac)]
                     ELSE acc1
         IN  gather_texture(socket, "sheenRoughnessTexture", acc2)

\* io.com.gltf2_io_extensions.Extension
Extension(name, extension, required) ==
    [type |-> "Extension", name |-> name, extension |-> extension,
     required |-> required]

Returned(ext, acc) ==
    [state |-> "returned", extension |-> ext,
     uvmap_infos |-> acc.uvmap_infos, gathered |-> acc.gathered]

\* export_sheen, and the same function giving up only when both sockets
\* are missing.
export_sheen_both_missing(blender_material) ==
    LET sheenColor_socket == get_socket(blender_material, "sheenColor")
        sheenRoughness_socket == get_socket(blender_material, "sheenRoughness")
    IN  IF sheenColor_socket.kind = "None" /\ sheenRoughness_socket.kind = "None"
        THEN Returned(PyNone, NothingGathered)
        ELSE LET acc == sheen_roughness(sheenRoughness_socket,
                            sheen_color(sheenColor_socket, NothingGathered))
             IN  Returned(Extension("KHR_materials_sheen", acc.sheen_extension, FALSE),
                          acc)

export_sheen(blender_material) ==
    LET sheenColor_socket == get_socket(blender_material, "sheenColor")
        sheenRoughness_socket == get_socket(blender_material, "sheenRoughness")
    IN  IF sheenColor_socket.kind = "None" \/ sheenRoughness_socket.kind = "None"
        THEN Returned(PyNone, NothingGathered)
        ELSE LET acc == sheen_roughness(sheenRoughness_socket,
                            sheen_color(sheenColor_socket, NothingGathered))
             IN  Returned(Extension("KHR_materials_sheen", acc.sheen_extension, FALSE),
                          acc)

\* The exporter has no rig under construction.
InitSheen ==
    /\ material \in Materials
    /\ sheen_result = NoResult
    /\ stage = "done"
    /\ cur = 1
    /\ ran = {}
    /\ org = [r \in Rigs |-> <<>>]
    /\ params_bbones = [r \in Rigs |-> bbones_default]
    /\ rig_parent_bone = [r \in Rigs |-> NoBone]
    /\ tweak_extra = 0
    /\ status = [r \in Rigs |-> "ok"]
    /\ bbone_segments = [r \in Rigs |-> 0]
    /\ ctrl_master = [r \in Rigs |-> NoBone]
    /\ mch_follow = [r \in Rigs |-> <<>>]
    /\ ctrl_tweak = [r \in Rigs |-> <<>>]
    /\ attrs = [r \in Rigs |-> {}]
    /\ eb = [b \in {} |-> NoBone]
    /\ props = [b \in {} |-> NoBone]
    /\ skin_primary = {}
    /\ constraints = <<>>
    /\ widgets = [b \in {} |-> "none"]
    /\ report = <<>>

\* The material exporter calls export_sheen on the material.
call_export_sheen ==
    /\ sheen_result = NoResult
    /\ material /= NoMaterial
    /\ sheen_result' = export_sheen(material)
    /\ UNCHANGED <<material, schedVars, inputVars, rigVars, armVars>>

NextSheen == call_export_sheen

SpecSheen == InitSheen /\ [][NextSheen]_vars

----------------------------------------------------------------------------
(* Properties of the tongue rig *)

StagePos == IF stage = "done" THEN Len(Stages) + 1 ELSE StageIndex(stage)

\* Handler h of stage st has been invoked on rig r.
HasRun(r, st, h) ==
    /\ status[r] = "ok"
    /\ \/ StagePos > StageIndex(st)
       \/ /\ stage = st
          /\ cur > r \/ (cur = r /\ h \in ran)

\* Every handler of stage st has been invoked on every rig that builds.
StageOver(st) == StagePos > StageIndex(st)

NumOrgs(r) == Len(org[r])

DerivedBones(r) ==
    {b \in DOMAIN eb : b.rig = r /\ b.prefix \in {"ctrl", "mch", "tweak"}}

ConstraintsOf(b) == {k \in 1..Len(constraints) : constraints[k].owner = b}

\* C1: once the generate phase is over, the follow chain of a rig built from
\* N >= 3 original bones has exactly N-1 bones, and its bone j (counted from
\* 0) is the mechanism bone derived from original bone j+1.
C1_FollowChainShape ==
    \A r \in Rigs :
        (StageOver("generate_bones") /\ NumOrgs(r) >= 3) =>
            /\ Len(mch_follow[r]) = NumOrgs(r) - 1
            /\ \A j \in 0..NumOrgs(r) - 2 :
                  /\ mch_follow[r][j + 1] = Bone("mch", r, j + 2)
                  /\ mch_follow[r][j + 1] \in DOMAIN eb
            /\ Cardinality({b \in DOMAIN eb : b.rig = r /\ b.prefix = "mch"})
                  = NumOrgs(r) - 1

C1_Witness ==
    \E r \in Rigs :
        /\ stage = "parent_bones"
        /\ status[r] = "ok"
        /\ NumOrgs(r) > 3
        /\ Len(mch_follow[r]) = NumOrgs(r) - 1

\* C2: once rig_follow_chain has run, follow bone i (from 0) of a rig with N
\* original bones carries exactly one constraint, a COPY_TRANSFORMS targeting
\* the master control with influence (N-1-i)/N; the influences lie strictly
\* between 0 and 1, strictly decrease with i, end at 1/N, and are 2/3 and
\* 1/3 for N = 3.
C2_Influence(r, i) ==
    constraints[CHOOSE k \in ConstraintsOf(mch_follow[r][i + 1]) : TRUE].influence

C2_FollowInfluence ==
    \A r \in Rigs :
        HasRun(r, "rig_bones", "rig_follow_chain") =>
            LET N == NumOrgs(r) IN
            /\ \A i \in 0..N - 2 :
                  /\ Cardinality(ConstraintsOf(mch_follow[r][i + 1])) = 1
                  /\ \A k \in ConstraintsOf(mch_follow[r][i + 1]) :
                        /\ constraints[k].type = "COPY_TRANSFORMS"
                        /\ constraints[k].target = ctrl_master[r]
                        /\ constraints[k].target = Bone("ctrl", r, 1)
                        /\ constraints[k].influence[1] * N
                              = (N - 1 - i) * constraints[k].influence[2]
                  /\ RatLess(<<0, 1>>, C2_Influence(r, i))
                  /\ RatLess(C2_Influence(r, i), <<1, 1>>)
                  /\ i > 0 => RatLess(C2_Influence(r, i), C2_Influence(r, i - 1))
            /\ C2_Influence(r, N - 2) = <<1, N>>
            /\ N = 3 => /\ C2_Influence(r, 0) = <<2, 3>>
                        /\ C2_Influence(r, 1) = <<1, 3>>

C2_Witness ==
    \E r \in Rigs :
        /\ HasRun(r, "rig_bones", "rig_follow_chain")
        /\ NumOrgs(r) = 3
        /\ Len(constraints) >= 2
        /\ \E k \in 1..Len(constraints) :
              constraints[k].owner = Bone("mch", r, 2)
                  /\ constraints[k].influence = <<2, 3>>

\* C3: once parent_tweak_chain has run, tweak bone 0 is parented to the
\* master control, tweak bone k (1 <= k <= N-1) to follow bone k-1, a tweak
\* bone at index N to the rig parent bone, and no tweak bone is parented to
\* anything else.
C3_TweakParents ==
    \A r \in Rigs :
        HasRun(r, "parent_bones", "parent_tweak_chain") =>
            LET N == NumOrgs(r) IN
            /\ Len(ctrl_tweak[r]) >= N
            /\ eb[ctrl_tweak[r][1]].parent = ctrl_master[r]
            /\ \A k \in 1..N - 1 :
                  eb[ctrl_tweak[r][k + 1]].parent = mch_follow[r][k]
            /\ Len(ctrl_tweak[r]) > N =>
                  eb[ctrl_tweak[r][N + 1]].parent = rig_parent_bone[r]
            /\ \A k \in 1..Len(ctrl_tweak[r]) :
                  eb[ctrl_tweak[r][k]].parent \in
                     {ctrl_master[r], rig_parent_bone[r]}
                        \cup {mch_follow[r][j] : j \in 1..Len(mch_follow[r])}

C3_Witness ==
    \E r \in Rigs :
        /\ HasRun(r, "parent_bones", "parent_tweak_chain")
        /\ Len(ctrl_tweak[r]) = NumOrgs(r) + 1
        /\ rig_parent_bone[r] = Root
        /\ eb[ctrl_tweak[r][NumOrgs(r) + 1]].parent = Root
        /\ eb[ctrl_tweak[r][2]].parent = Bone("mch", r, 2)

\* C4: a rig whose input chain has fewer than 3 original bones fails in
\* initialize with an error in the build report and never gets a control,
\* follow or tweak bone; the failing step leaves the armature as it was, and
\* every other rig is built in full.
C4_Failed(r) ==
    /\ status[r] = "error"
    /\ \E k \in 1..Len(report) :
          report[k].rig = r /\ report[k].type = "MetarigError"
    /\ DerivedBones(r) = {}

C4_Built(r) ==
    /\ Cardinality(DerivedBones(r)) = 1 + (NumOrgs(r) - 1) + Len(ctrl_tweak[r])
    /\ \A j \in 1..Len(mch_follow[r]) :
          eb[mch_follow[r][j]].parent = rig_parent_bone[r]
    /\ Cardinality(ConstraintsOf(mch_follow[r][1])) = 1

C4_ShortChainInv ==
    \A r \in Rigs :
        /\ (NumOrgs(r) < 3 /\ (StageOver("initialize") \/ cur > r))
              => C4_Failed(r)
        /\ (NumOrgs(r) >= 3 /\ stage = "done")
              => (status[r] = "ok" /\ C4_Built(r))

C4_FailingStep ==
    \A r \in Rigs :
        (status[r] = "ok" /\ status'[r] = "error") =>
            /\ UNCHANGED <<eb, props, skin_primary, constraints, widgets>>
            /\ UNCHANGED <<ctrl_master, mch_follow, ctrl_tweak>>
            /\ \A q \in Rigs \ {r} : status'[q] = status[q]
            /\ Len(report') = Len(report) + 1

C4_ShortChainFails == []C4_ShortChainInv /\ [][C4_FailingStep]_vars

C4_Witness ==
    \E r, q \in Rigs :
        /\ stage = "done"
        /\ NumOrgs(r) < 3
        /\ status[r] = "error"
        /\ status[q] = "ok"
        /\ DerivedBones(q) /= {}

\* C5: once parent_follow_chain has run, every follow bone is parented to
\* the rig parent bone; the handler changes the parent of no other bone and
\* creates or removes no bone.
C5_FollowParentsInv ==
    \A r \in Rigs :
        HasRun(r, "parent_bones", "parent_follow_chain") =>
            \A j \in 1..Len(mch_follow[r]) :
                eb[mch_follow[r][j]].parent = rig_parent_bone[r]

C5_FollowParentsStep ==
    \A r \in Rigs :
        (/\ stage = "parent_bones" /\ cur = r
         /\ "parent_follow_chain" \notin ran
         /\ "parent_follow_chain" \in ran') =>
            /\ DOMAIN eb' = DOMAIN eb
            /\ \A b \in DOMAIN eb :
                  b \notin {mch_follow[r][j] : j \in 1..Len(mch_follow[r])}
                      => eb'[b] = eb[b]
            /\ \A b \in DOMAIN eb :
                  eb'[b].head = eb[b].head /\ eb'[b].tail = eb[b].tail

C5_FollowParents == []C5_FollowParentsInv /\ [][C5_FollowParentsStep]_vars

C5_Witness ==
    \E r \in Rigs :
        /\ HasRun(r, "parent_bones", "parent_follow_chain")
        /\ rig_parent_bone[r] = Root
        /\ Len(mch_follow[r]) >= 2
        /\ eb[mch_follow[r][2]].parent = Root

\* C9: the stages are invoked in pipeline order, one stage at a time; when
\* any stage after generate is being invoked, every rig being built has its
\* master control and follow list assigned and created; and no stage after
\* generate changes the master control or the follow list.
C9_AssignedInv ==
    StageOver("generate_bones") =>
        \A r \in Rigs :
            status[r] = "ok" =>
                /\ {"ctrl.master", "mch.follow"} \subseteq attrs[r]
                /\ ctrl_master[r] \in DOMAIN eb
                /\ \A j \in 1..Len(mch_follow[r]) : mch_follow[r][j] \in DOMAIN eb

C9_PipelineStep ==
    /\ stage' /= stage =>
          /\ StageIndex(stage) < Len(Stages) => stage' = Stages[StageIndex(stage) + 1]
          /\ StageIndex(stage) = Len(Stages) => stage' = "done"
    /\ StageOver("generate_bones") =>
          /\ UNCHANGED <<ctrl_master, mch_follow, attrs>>
          /\ {b \in DOMAIN eb' : b.prefix = "mch"} = {b \in DOMAIN eb : b.prefix = "mch"}

C9_Pipeline == []C9_AssignedInv /\ [][C9_PipelineStep]_vars

C9_Witness ==
    /\ stage = "generate_widgets"
    /\ "make_control_widgets" \in ran
    /\ status[cur] = "ok"
    /\ ctrl_master[cur] \in DOMAIN widgets

----------------------------------------------------------------------------
(* Properties of export_sheen *)

Channels ==
    {[socket |-> "sheenColor", factor |-> "sheenColorFactor",
      texture |-> "sheenColorTexture"],
     [socket |-> "sheenRoughness", factor |-> "sheenRoughnessFactor",
      texture |-> "sheenRoughnessTexture"]}

SheenReturned == sheen_result.state = "returned"

BothSocketsExist ==
    material.sheenColor.kind = "NodeSocket"
        /\ material.sheenRoughness.kind = "NodeSocket"

SheenRecord == sheen_result.extension.extension

\* The factor a linked channel is exported with: the one found upstream of
\* the socket, or 1.0 (white) when none is found.
LinkedFactor(ch) ==
    IF material[ch.socket].factor /= PyNone THEN material[ch.socket].factor
    ELSE IF ch.socket = "sheenColor" THEN PyList(<<1, 1, 1>>) ELSE PyFloat(1)

IsZero(v) == \A k \in 1..Len(v.items) : v.items[k] = 0

\* C6: when the color socket or the roughness socket is missing, export_sheen
\* returns no extension and an empty UV map mapping, and gathers no factor
\* and no texture.
C6_MissingSocket ==
    (SheenReturned /\ ~BothSocketsExist) =>
        /\ sheen_result.extension = PyNone
        /\ sheen_result.uvmap_infos = EmptyDict
        /\ sheen_result.gathered = <<>>

C6_Witness ==
    /\ SheenReturned
    /\ material.sheenColor.kind = "None"
    /\ material.sheenRoughness.kind = "NodeSocket"
    /\ material.sheenRoughness.has_image
    /\ sheen_result.extension = PyNone

\* C7 as stated: a channel linked with an image source has its texture key in
\* the record and does not have its factor key.
C7_TextureInsteadOfFactor ==
    (SheenReturned /\ BothSocketsExist) =>
        \A ch \in Channels :
            (material[ch.socket].is_linked /\ material[ch.socket].has_image) =>
                /\ ch.texture \in DOMAIN SheenRecord
                /\ ch.factor \notin DOMAIN SheenRecord

\* C7 as amended: a channel linked with an image source has its texture key
\* in the record, holding the gathered texture, and also its factor key,
\* holding the factor found upstream of the socket or 1.0 when none is found;
\* the factor key is left out only when that factor is zero.
C7_TextureAndFactor ==
    (SheenReturned /\ BothSocketsExist) =>
        \A ch \in Channels :
            (material[ch.socket].is_linked /\ material[ch.socket].has_image) =>
                /\ ch.texture \in DOMAIN SheenRecord
                /\ SheenRecord[ch.texture].source = ch.socket
                /\ ch.factor \in DOMAIN SheenRecord <=> ~IsZero(LinkedFactor(ch))
                /\ ch.factor \in DOMAIN SheenRecord =>
                      SheenRecord[ch.factor] = LinkedFactor(ch)

C7_Witness ==
    /\ SheenReturned
    /\ BothSocketsExist
    /\ material.sheenColor.is_linked
    /\ material.sheenColor.has_image
    /\ material.sheenColor.factor = PyNone
    /\ "sheenColorTexture" \in DOMAIN SheenRecord
    /\ "sheenColorFactor" \in DOMAIN SheenRecord

\* C8: an unlinked channel has its factor key in the record exactly when the
\* socket's value is not the default (black, 0.0); the recorded factor is
\* the socket's value (its red, green and blue for the color), and the
\* channel has no texture key.
SocketValue(ch) ==
    IF ch.socket = "sheenColor"
    THEN SubSeq(material[ch.socket].default_value.items, 1, 3)
    ELSE material[ch.socket].default_value.items

C8_UnlinkedFactor ==
    (SheenReturned /\ BothSocketsExist) =>
        \A ch \in Channels :
            ~material[ch.socket].is_linked =>
                /\ ch.factor \in DOMAIN SheenRecord
                      <=> (\E k \in 1..Len(SocketValue(ch)) : SocketValue(ch)[k] /= 0)
                /\ ch.factor \in DOMAIN SheenRecord =>
                      SheenRecord[ch.factor].items = SocketValue(ch)
                /\ ch.texture \notin DOMAIN SheenRecord

C8_Witness ==
    /\ SheenReturned
    /\ BothSocketsExist
    /\ ~material.sheenColor.is_linked
    /\ ~material.sheenRoughness.is_linked
    /\ material.sheenColor.default_value.items = <<0, 0, 0, 1>>
    /\ material.sheenRoughness.default_value = PyFloat(1)
    /\ DOMAIN SheenRecord = {"sheenRoughnessFactor"}

\* C10: when both sockets exist, export_sheen returns an extension named
\* KHR_materials_sheen whatever the links and values are, and the UV map
\* mapping has exactly the texture keys of the extension record.
C10_ExtensionAndUVMaps ==
    (SheenReturned /\ BothSocketsExist) =>
        /\ sheen_result.extension /= PyNone
        /\ sheen_result.extension.type = "Extension"
        /\ sheen_result.extension.name = "KHR_materials_sheen"
        /\ DOMAIN sheen_result.uvmap_infos =
              DOMAIN SheenRecord \cap {ch.texture : ch \in Channels}
        /\ \A ch \in Channels :
              ch.texture \in DOMAIN SheenRecord =>
                  sheen_result.uvmap_infos[ch.texture].source = ch.socket

C10_Witness ==
    /\ SheenReturned
    /\ BothSocketsExist
    /\ ~material.sheenColor.is_linked
    /\ ~material.sheenRoughness.is_linked
    /\ sheen_result.extension.name = "KHR_materials_sheen"
    /\ SheenRecord = EmptyDict

====
